---- MODULE Spec2Model ----
(***************************************************************************)
(* Model of the inter-service request client of tools_openverse            *)
(* (common/request.py): the route catalog, RoutesNamespace.get_route,      *)
(* SetRequest.validate_http_method, SetRequest._get_url and                *)
(* SetRequest.send_request.                                                *)
(*                                                                         *)
(* Strings whose inner structure the code inspects (route templates, the   *)
(* base URL, the built URL) are sequences of tokens; "{" and "}" are       *)
(* tokens of their own, as are the "/" separators, so that str.format,     *)
(* lstrip("/"), rstrip("/") and startswith act on what they act on in the  *)
(* code.  Python values of different types are records tagged with their   *)
(* type.                                                                   *)
(***************************************************************************)
EXTENDS Integers, Sequences, FiniteSets, TLC

VARIABLES
    settings,   \* the configuration read at import time (config.py:298)
    op,         \* the last stand-alone call (validate_http_method / get_route) and its outcome
    pc,         \* the stage of the current send_request call
    args,       \* the arguments of the current send_request call
    url,        \* the local `url` of send_request (line 403)
    netCalls,   \* number of client.request calls made by the current send_request
    request,    \* the request handed to client.request by the current call
    response,   \* the httpx response received by the current call
    outcome,    \* how the current send_request ended (returned value or raised exception)
    stages,     \* the stages the current send_request has passed, in the order it passed them
    client,     \* the httpx.AsyncClient objects the sends of this SetRequest created (line 409):
                \* how many so far, and whether the one of the current call is open
    calls,      \* send_request calls running concurrently on one SetRequest, each with its locals
    services,   \* HealthCheck._services: the registered ServiceCheck objects, in insertion order
    log,        \* the add_service / remove_service calls made on the HealthCheck so far
    run         \* the check_services call in progress: its tasks and its `results`

vars == <<settings, op, pc, args, url, netCalls, request, response, outcome, stages, client,
          calls, services, log, run>>

Range(s) == {s[i] : i \in DOMAIN s}

(***************************************************************************)
(* The catalog.                                                            *)
(***************************************************************************)

\* class UsersRoutes(str, Enum): member name -> template
UsersRoutes ==
    [ CREATE_USER          |-> <<"/", "users", "/", "create">>,
      GET_USER_BY_ID       |-> <<"/", "users", "/", "get", "/", "{", "id", "}">>,
      GET_USER_BY_LOGIN    |-> <<"/", "users", "/", "login", "/", "{", "user_login", "}">>,
      UPDATE_USER          |-> <<"/", "users", "/", "update">>,
      DELETE_USER_BY_ID    |-> <<"/", "users", "/", "delete", "/", "{", "user_id", "}">>,
      DELETE_USER_BY_LOGIN |-> <<"/", "users", "/", "delete", "/", "login", "/", "{", "user_login", "}">>,
      LOG_IN               |-> <<"/", "users", "/", "log_in">>,
      HEALTH               |-> <<"/", "health">> ]

\* class AuthenticationRoutes(str, Enum): member name -> template
AuthenticationRoutes ==
    [ GET_ACCESS_TOKEN  |-> <<"/", "auth", "/", "token">>,
      GET_REFRESH_TOKEN |-> <<"/", "auth", "/", "refresh">>,
      GET_USER_INFO     |-> <<"/", "auth", "/", "user", "/", "info">> ]

\* class ServiceName(str, Enum): member name -> value
ServiceName == [ USERS |-> "USERS", AUTHENTICATION |-> "AUTHENTICATION" ]

\* class _HttpRoutesMethods(str, Enum): member name -> value
HttpRoutesMethods ==
    [ CREATE_USER          |-> "POST",
      GET_USER_BY_ID       |-> "GET",
      GET_USER_BY_LOGIN    |-> "GET",
      UPDATE_USER          |-> "PUT",
      DELETE_USER_BY_ID    |-> "DELETE",
      DELETE_USER_BY_LOGIN |-> "DELETE",
      HEALTH               |-> "GET",
      LOG_IN               |-> "POST",
      GET_ACCESS_TOKEN     |-> "GET",
      GET_REFRESH_TOKEN    |-> "GET",
      GET_USER_INFO        |-> "GET" ]

\* class HttpMethods(str, Enum): the values
HttpMethods == {"GET", "POST", "PUT", "DELETE", "PATCH"}

\* The route enumeration classes by class name
RouteClasses == [ UsersRoutes |-> UsersRoutes, AuthenticationRoutes |-> AuthenticationRoutes ]

\* class RoutesNamespace: the class attributes holding route enumerations
RoutesNamespace == [ USERS |-> "UsersRoutes", AUTHENTICATION |-> "AuthenticationRoutes" ]

(***************************************************************************)
(* Python values.                                                          *)
(***************************************************************************)

\* a member of UsersRoutes / AuthenticationRoutes / ServiceName
Member(cls, name) == [cls |-> cls, name |-> name]

\* a plain str given where a member may be given
Str(s) == [cls |-> "str", name |-> s]

\* isinstance(x, UsersRoutes | AuthenticationRoutes)
IsRouteMember(x) == x.cls \in {"UsersRoutes", "AuthenticationRoutes"}

\* a return value / a raised exception of a call
Return(v) == [kind |-> "return", value |-> v]

Raise(exc, msg, a) == [kind |-> "raise", exc |-> exc, msg |-> msg, args |-> a]

\* a dict: a set of <<key, value>> pairs with distinct keys
Keys(d) == {p[1] : p \in d}

Get(d, k) == (CHOOSE p \in d : p[1] = k)[2]

\* Optional[dict[str, Any]]: None, or a dict
NoneParams == [isNone |-> TRUE, kw |-> {}]

Dict(kw) == [isNone |-> FALSE, kw |-> kw]

\* Python truth value of a params argument (`if not params`, `if params`)
Truthy(params) == ~params.isNone /\ params.kw # {}

\* str.upper() on the service strings of the model
Upper(s) ==
    CASE s = "users"          -> "USERS"
      [] s = "Users"          -> "USERS"
      [] s = "authentication" -> "AUTHENTICATION"
      [] s = "billing"        -> "BILLING"
      [] OTHER                -> s

(***************************************************************************)
(* RoutesNamespace.get_route                                               *)
(***************************************************************************)

\* str.format(**kw) from token i on: each "{" name "}" becomes kw[name];
\* the first name missing from kw raises KeyError(name)
RECURSIVE FormatFrom(_, _, _)
FormatFrom(route, kw, i) ==
    IF i > Len(route) THEN [ok |-> TRUE, out |-> <<>>, key |-> ""]
    ELSE IF route[i] = "{"
         THEN IF route[i + 1] \in Keys(kw)
              THEN LET rest == FormatFrom(route, kw, i + 3)
                   IN  [rest EXCEPT !.out = <<Get(kw, route[i + 1])>> \o @]
              ELSE [ok |-> FALSE, out |-> <<>>, key |-> route[i + 1]]
         ELSE LET rest == FormatFrom(route, kw, i + 1)
              IN  [rest EXCEPT !.out = <<route[i]>> \o @]

\* a format that leaves the template as it is
FormatKeepsTemplate(route, kw) == [ok |-> TRUE, out |-> route, key |-> ""]

\* route.format(**params)
Format(route, kw) == FormatFrom(route, kw, 1)

\* `"{" in route and "}" in route`
HasPlaceholder(route) == "{" \in Range(route) /\ "}" \in Range(route)

\* the try block with a lookup that falls back to the service root for a key
\* the enumeration does not have
ResolveWithDefault(route_service, route_name, params) ==
    LET known == IsRouteMember(route_name) \/ route_name.name \in DOMAIN RouteClasses[route_service]
        route == IF IsRouteMember(route_name)
                 THEN RouteClasses[route_name.cls][route_name.name]
                 ELSE RouteClasses[route_service][route_name.name]
    IN  IF ~known
        THEN Return(<<"/">>)
        ELSE IF HasPlaceholder(route) /\ Truthy(params) /\ Format(route, params.kw).ok
             THEN Return(Format(route, params.kw).out)
             ELSE Return(route)

\* the try block without the `if not params` check of lines 131-133: the
\* template is formatted with whatever params hold
ResolveSkipsParamsCheck(route_service, route_name, params) ==
    LET known == IsRouteMember(route_name) \/ route_name.name \in DOMAIN RouteClasses[route_service]
        route == IF IsRouteMember(route_name)
                 THEN RouteClasses[route_name.cls][route_name.name]
                 ELSE RouteClasses[route_service][route_name.name]
    IN  IF ~known
        THEN Raise("ValueError", "Unknown attribute or incorrect format", <<route_name.name>>)
        ELSE IF HasPlaceholder(route)
             THEN LET f == FormatFrom(route, params.kw, 1)
                  IN  IF f.ok THEN Return(f.out)
                      ELSE Raise("ValueError", "Unknown attribute or incorrect format", <<f.key>>)
             ELSE Return(route)

\* lines 122-150: the try block, given the route enumeration of the service
ResolveInService(route_service, route_name, params) ==
    LET known == IsRouteMember(route_name) \/ route_name.name \in DOMAIN RouteClasses[route_service]
        route == IF IsRouteMember(route_name)
                 THEN RouteClasses[route_name.cls][route_name.name]
                 ELSE RouteClasses[route_service][route_name.name]
    IN  IF ~known
        THEN \* route_service[route_name] raises KeyError, caught at line 148
             Raise("ValueError", "Unknown attribute or incorrect format", <<route_name.name>>)
        ELSE IF HasPlaceholder(route)
             THEN IF ~Truthy(params)
                  THEN Raise("ValueError", "Missing parameters for route", <<>>)
                  ELSE LET f == Format(route, params.kw)
                       IN  IF f.ok THEN Return(f.out)
                           ELSE \* KeyError of str.format, caught at line 148
                                Raise("ValueError", "Unknown attribute or incorrect format", <<f.key>>)
             ELSE Return(route)


\* RoutesNamespace.get_route(service, route_name, params); service is a
\* ServiceName member or a str
get_route(service, route_name, params) ==
    LET service_value == IF service.cls = "ServiceName"
                         THEN Upper(ServiceName[service.name])
                         ELSE Upper(service.name)
    IN  IF service_value \notin DOMAIN RoutesNamespace
        THEN Raise("ValueError", "Unknown service", <<service.name>>)
        ELSE ResolveInService(RoutesNamespace[service_value], route_name, params)

(***************************************************************************)
(* SetRequest.validate_http_method                                         *)
(***************************************************************************)

\* a check that compares nothing
CheckMethodAcceptsAll(route_name_str, route_method) == Return(<<>>)

\* lines 246-263 for a name _HttpRoutesMethods has: compare the verbs
CheckMethod(route_name_str, route_method) ==
    LET expected_method == HttpRoutesMethods[route_name_str]
    IN  IF expected_method # route_method
        THEN Raise("ValueError", "Invalid HTTP method",
                   <<route_method, route_name_str, expected_method>>)
        ELSE Return(<<>>)

\* validate_http_method(route_name, route_method)
validate_http_method(route_name, route_method) ==
    LET route_name_str == route_name.name
    IN  IF route_name_str \notin DOMAIN HttpRoutesMethods
        THEN \* getattr raises AttributeError; the handler at line 267 catches KeyError only
             Raise("AttributeError", "type object '_HttpRoutesMethods' has no attribute",
                   <<route_name_str>>)
        ELSE CheckMethod(route_name_str, route_method)

(***************************************************************************)
(* Configuration and the port registry.                                    *)
(***************************************************************************)

\* the value None of an unset setting (get_env_value, config.py:37-40)
NoneSetting == "<None>"

\* settings.BASE_URL values of the model
BaseUrls == { <<"localhost">>, <<"http://", "localhost", "/">> }

\* Settings.validate_port_services: one of the two ports must be set
validate_port_services(values) ==
    ~(values.PORT_SERVICE_AUTH \in {NoneSetting, ""} /\ values.PORT_SERVICE_USERS \in {NoneSetting, ""})

\* the Settings objects get_settings() can return
Settings ==
    { v \in [ BASE_URL : BaseUrls,
              PORT_SERVICE_USERS : {"8001", "", NoneSetting},
              PORT_SERVICE_AUTH : {"8002", "", NoneSetting} ] : validate_port_services(v) }

\* the value of a member of a (str, Enum) class defined from x: str(x)
StrValue(x) == IF x = NoneSetting THEN "None" ELSE x

\* class ServicesPorts(str, Enum): member name -> value
ServicesPorts(s) ==
    [ USERS          |-> StrValue(s.PORT_SERVICE_USERS),
      AUTHENTICATION |-> StrValue(s.PORT_SERVICE_AUTH) ]

(***************************************************************************)
(* BaseRequestException                                                    *)
(***************************************************************************)

HTTP_400_BAD_REQUEST == 400
HTTP_500_INTERNAL_SERVER_ERROR == 500
HTTP_503_SERVICE_UNAVAILABLE == 503
HTTP_504_GATEWAY_TIMEOUT == 504

\* BaseRequestException(message, status_code): an HTTPException carrying
\* status_code, or 400 when status_code is 0 or None
BaseRequestException(message, status_code) ==
    [ kind |-> "raise", exc |-> "BaseRequestException", msg |-> message, args |-> <<>>,
      status_code |-> IF status_code # 0 THEN status_code ELSE HTTP_400_BAD_REQUEST ]

(***************************************************************************)
(* SetRequest._get_url                                                     *)
(***************************************************************************)

\* str.lstrip("/")
RECURSIVE LStrip(_)
LStrip(s) == IF s # <<>> /\ Head(s) = "/" THEN LStrip(Tail(s)) ELSE s

\* str.rstrip("/")
RECURSIVE RStrip(_)
RStrip(s) == IF s # <<>> /\ s[Len(s)] = "/" THEN RStrip(SubSeq(s, 1, Len(s) - 1)) ELSE s

\* lines 331-335: the base URL with its scheme, without trailing slashes
BaseUrl(s) ==
    LET base_url == IF s.BASE_URL # <<>> /\ s.BASE_URL[1] \in {"http://", "https://"}
                    THEN s.BASE_URL
                    ELSE <<"http://">> \o s.BASE_URL
    IN  RStrip(base_url)

\* lines 331-362, for service_name a str and the route already resolved
BuildUrl(s, service_name, route) ==
    LET service_port == ServicesPorts(s)[service_name]
    IN  IF service_port # ""
        THEN Return(BaseUrl(s) \o <<":", service_port>> \o route)
        ELSE BaseRequestException("Service port not found for service", HTTP_503_SERVICE_UNAVAILABLE)

\* lines 317-322, for service_name a str and route_name a route member
ResolveForUrl(service_name, route_name, params) ==
    IF Truthy(params)
    THEN get_route(Str(service_name), route_name, params)
    ELSE Return(LStrip(RouteClasses[route_name.cls][route_name.name]))

\* _get_url(service_name, route_name, params) under settings s
get_url(s, service_name, route_name, params) ==
    IF service_name.cls = "ServiceName"
    THEN \* service_name becomes the str value of the member
         IF ~IsRouteMember(route_name)
         THEN \* getattr(<str>, route_name)
              Raise("AttributeError", "'str' object has no attribute", <<route_name.name>>)
         ELSE LET r == ResolveForUrl(ServiceName[service_name.name], route_name, params)
              IN  IF r.kind = "raise" THEN r
                  ELSE BuildUrl(s, ServiceName[service_name.name], r.value)
    ELSE \* service_name becomes getattr(RoutesNamespace, service_name): a class
         IF service_name.name \notin DOMAIN RoutesNamespace
         THEN Raise("AttributeError", "type object 'RoutesNamespace' has no attribute",
                    <<service_name.name>>)
         ELSE IF ~IsRouteMember(route_name)
                 /\ route_name.name \notin DOMAIN RouteClasses[RoutesNamespace[service_name.name]]
         THEN Raise("AttributeError", "type object has no attribute", <<route_name.name>>)
         ELSE IF Truthy(params)
         THEN \* get_route(service=<class>): service.upper() on the class
              Raise("TypeError", "unbound method str.upper() needs an argument", <<>>)
         ELSE \* getattr(ServicesPorts, <class>)
              Raise("TypeError", "attribute name must be string", <<>>)

\* the stages _get_url passes before it returns or raises: the path is
\* resolved at lines 311-322, the port at lines 337-349, the URL is built at
\* lines 350-356
get_url_stages(s, service_name, route_name, params) ==
    IF service_name.cls # "ServiceName" \/ ~IsRouteMember(route_name)
    THEN <<>>
    ELSE IF ResolveForUrl(ServiceName[service_name.name], route_name, params).kind = "raise"
    THEN <<>>
    ELSE IF ServicesPorts(s)[ServiceName[service_name.name]] = ""
    THEN <<"PathResolved">>
    ELSE <<"PathResolved", "PortResolved", "URLBuilt">>

(***************************************************************************)
(* Responses and their normalisation (send_request, lines 436-480).        *)
(***************************************************************************)

\* JSON values as response.json() returns them
JStr(x) == [t |-> "str", s |-> x]
JNull == [t |-> "null"]
JNum(n) == [t |-> "number", n |-> n]
JList(items) == [t |-> "list", items |-> items]
JObj(fields) == [t |-> "object", fields |-> fields]

\* a body response.json() cannot parse
NotJson == [t |-> "invalid"]

\* Python truth value of a JSON value
JTruthy(v) ==
    CASE v.t = "str"    -> v.s # ""
      [] v.t = "null"   -> FALSE
      [] v.t = "number" -> v.n # 0
      [] v.t = "list"   -> v.items # <<>>
      [] v.t = "object" -> v.fields # {}

\* ErrorResponse(error=..., status_code=...): the field `error` is a str
ErrorResponse(error, status_code) ==
    IF error.t = "str"
    THEN Return([variant |-> "Error", error |-> error.s, status_code |-> status_code])
    ELSE Raise("ValidationError", "ErrorResponse.error: Input should be a valid string", <<>>)

\* SuccessResponse(detail=..., success=True, status_code=...): the field `detail` is a dict
SuccessResponse(detail, status_code) ==
    IF detail.t = "object"
    THEN Return([variant |-> "Success", detail |-> detail, success |-> TRUE,
                 status_code |-> status_code])
    ELSE Raise("ValidationError", "SuccessResponse.detail: Input should be a valid dictionary", <<>>)

\* `"detail" in result`: "yes", "no", or "TypeError" when result is not a container
DetailIn(result) ==
    CASE result.t = "object" -> IF "detail" \in Keys(result.fields) THEN "yes" ELSE "no"
      [] result.t = "list"   -> IF JStr("detail") \in Range(result.items) THEN "yes" ELSE "no"
      [] result.t = "str"    -> IF result.s = "detail" THEN "yes" ELSE "no"  \* substring test
      [] OTHER               -> "TypeError"

\* lines 446-460 and 476-480 for a parsed body
NormalizeParsed(status_code, result) ==
    IF DetailIn(result) = "TypeError"
    THEN Raise("TypeError", "argument is not iterable", <<>>)
    ELSE IF DetailIn(result) = "yes"
    THEN IF result.t # "object"
         THEN \* result["detail"] on a list or a str
              Raise("TypeError", "indices must be integers", <<>>)
         ELSE IF JTruthy(Get(result.fields, "detail"))
         THEN ErrorResponse(Get(result.fields, "detail"), status_code)
         ELSE \* neither branch returns: line 476
              ErrorResponse(JStr("Unexpected error"), HTTP_500_INTERNAL_SERVER_ERROR)
    ELSE SuccessResponse(result, status_code)

\* a parse fault reported as an internal error
ParseFaultAs500(status_code) ==
    BaseRequestException("Failed to parse response JSON", HTTP_500_INTERNAL_SERVER_ERROR)

\* lines 439-444: response.json() raised
ParseFault(status_code) ==
    BaseRequestException("Failed to parse response JSON", status_code)

\* lines 436-460, 476-480: from the response to the outcome of send_request
Normalize(resp) ==
    IF resp.body.t = "invalid"
    THEN ParseFault(resp.status_code)
    ELSE NormalizeParsed(resp.status_code, resp.body)

\* the except clauses with httpx.RequestError first: it catches the timeout too
TransportFaultTimeoutAs500(e) ==
    BaseRequestException("Request failed", HTTP_500_INTERNAL_SERVER_ERROR)

\* lines 462-474: the except clauses, in their order, for a transport
\* exception e of client.request ("TimeoutException" is a RequestError too)
TransportFault(e) ==
    IF e = "TimeoutException"
    THEN BaseRequestException("Request timed out", HTTP_504_GATEWAY_TIMEOUT)
    ELSE BaseRequestException("Request failed", HTTP_500_INTERNAL_SERVER_ERROR)

\* the request with the json argument not conditioned on form_data: a form
\* body goes out as JSON as well
OutgoingRequestJsonAlways(a, u) ==
    LET withBody == a.route_method \in {"POST", "PUT", "PATCH"} /\ ~a.request_data.isNone
    IN  [ method |-> a.route_method,
          url    |-> u,
          json   |-> IF withBody THEN a.request_data ELSE NoneParams,
          data   |-> IF withBody /\ a.form_data THEN a.request_data ELSE NoneParams,
          params |-> NoneParams ]

\* lines 413-430: the request handed to client.request; the call passes
\* method, url, json and data, so the query parameters (params) are None
OutgoingRequest(a, u) ==
    LET withBody == a.route_method \in {"POST", "PUT", "PATCH"} /\ ~a.request_data.isNone
    IN  [ method |-> a.route_method,
          url    |-> u,
          json   |-> IF withBody /\ ~a.form_data THEN a.request_data ELSE NoneParams,
          data   |-> IF withBody /\ a.form_data THEN a.request_data ELSE NoneParams,
          params |-> NoneParams ]

(***************************************************************************)
(* Inputs.                                                                 *)
(***************************************************************************)

\* every member of the two route enumerations
RouteMembers ==
    {Member("UsersRoutes", n) : n \in DOMAIN UsersRoutes}
        \cup {Member("AuthenticationRoutes", n) : n \in DOMAIN AuthenticationRoutes}

\* route keys given as plain strings: three that name a route, one that names none
RawRouteKeys == {"CREATE_USER", "GET_USER_BY_ID", "GET_ACCESS_TOKEN", "NO_SUCH_ROUTE"}

RouteInputs == RouteMembers \cup {Str(k) : k \in RawRouteKeys}

ServiceMembers == {Member("ServiceName", n) : n \in DOMAIN ServiceName}

\* services given as plain strings: known ones in several cases, and unknown ones
RawServices == {"USERS", "users", "authentication", "billing", "ORDERS"}

ServiceInputs == ServiceMembers \cup {Str(x) : x \in RawServices}

\* request_data of send_request as model_dump(exclude_none=True) gives it, or None
RequestDatas ==
    { NoneParams, Dict({}), Dict({<<"id", "42">>}),
      Dict({<<"login", "alice">>, <<"password", "p@ss">>}) }

\* params of get_route
ParamInputs ==
    RequestDatas \cup
    { Dict({<<"user_login", "bob">>}), Dict({<<"user_id", "7">>}),
      Dict({<<"id", "42">>, <<"user_id", "7">>, <<"user_login", "bob">>}) }

StatusCodes == {200, 201, 404, 422, 500}

\* response bodies: one that is not JSON, JSON objects, and JSON values that are no objects
Bodies ==
    { NotJson,
      JObj({<<"id", JStr("u1")>>}),
      JObj({}),
      JObj({<<"detail", JStr("Not found")>>}),
      JObj({<<"detail", JStr("Not found")>>, <<"id", JStr("u1")>>}),
      JObj({<<"detail", JStr("")>>}),
      JObj({<<"detail", JNull>>}),
      JObj({<<"detail", JList(<<JObj({<<"msg", JStr("field required")>>})>>)>>}),
      JObj({<<"detail", JNum(7)>>}),
      JList(<<>>),
      JList(<<JStr("detail")>>),
      JStr("detail"),
      JStr("ok"),
      JNum(5),
      JNull }

\* exceptions client.request raises: httpx.TimeoutException, and another httpx.RequestError
TransportExceptions == {"TimeoutException", "ConnectError"}

None == [kind |-> "none"]

\* the sends of one SetRequest that the model follows up to the network call
MaxClients == 2

\* the send_request calls the model follows running concurrently on one SetRequest
MaxSends == 2

SendIds == 1..MaxSends

\* a call slot with no call running
IdleCall ==
    [pc |-> "Idle", args |-> None, url |-> None, request |-> None, response |-> None,
     outcome |-> None, conn |-> "none", afterTimeout |-> FALSE]

(***************************************************************************)
(* The state machine.                                                      *)
(***************************************************************************)

Init ==
    /\ settings \in Settings
    /\ op = None
    /\ pc = "Idle"
    /\ args = None
    /\ url = None
    /\ netCalls = 0
    /\ request = None
    /\ response = None
    /\ outcome = None
    /\ stages = <<>>
    /\ client = [created |-> 0, open |-> FALSE]
    /\ calls = [timedOut |-> FALSE, sends |-> [i \in SendIds |-> IdleCall]]
    /\ services = <<>>
    /\ log = <<>>
    /\ run = None

sendVars == <<pc, args, url, netCalls, request, response, outcome, stages>>

\* the variables of the one-call-at-a-time client, of the concurrent calls, of the HealthCheck
clientVars == <<settings, op, sendVars, client>>

concVars == <<calls>>

healthVars == <<services, log, run>>

\* a stand-alone call of SetRequest.validate_http_method
ValidateCall ==
    /\ pc = "Idle" /\ op = None
    /\ \E r \in RouteInputs, m \in HttpMethods :
          op' = [kind |-> "call", name |-> "validate_http_method", route_name |-> r, route_method |-> m,
                 out |-> validate_http_method(r, m)]
    /\ UNCHANGED <<healthVars, concVars, settings, sendVars, client>>

\* a stand-alone call of RoutesNamespace.get_route
GetRouteCall ==
    /\ pc = "Idle" /\ op = None
    /\ \E sv \in ServiceInputs, r \in RouteInputs, p \in ParamInputs :
          op' = [kind |-> "call", name |-> "get_route", service |-> sv, route_name |-> r, params |-> p,
                 out |-> get_route(sv, r, p)]
    /\ UNCHANGED <<healthVars, concVars, settings, sendVars, client>>

\* the caller has taken the outcome of the stand-alone call
CallDone ==
    /\ op # None
    /\ op' = None
    /\ UNCHANGED <<healthVars, concVars, settings, sendVars, client>>

\* send_request is called (lines 364-397)
SendCall ==
    /\ pc = "Idle" /\ op = None
    /\ client.created < MaxClients
    /\ \E sv \in ServiceMembers, r \in RouteInputs, m \in HttpMethods,
          d \in RequestDatas, f \in BOOLEAN :
          args' = [service_name |-> sv, route_name |-> r, route_method |-> m,
                   request_data |-> d, form_data |-> f]
    /\ pc' = "Called"
    /\ stages' = <<"Idle">>
    /\ UNCHANGED <<healthVars, concVars, settings, op, url, netCalls, request, response, outcome, client>>

\* send_request without the call of validate_http_method
SendValidateSkipped ==
    /\ pc = "Called"
    /\ pc' = "MethodValidated"
    /\ UNCHANGED <<healthVars, concVars, settings, op, args, url, netCalls, request, response, outcome, client, stages>>

\* lines 399-401: await self.validate_http_method(...)
SendValidate ==
    /\ pc = "Called"
    /\ LET v == validate_http_method(args.route_name, args.route_method)
       IN  IF v.kind = "raise"
           THEN pc' = "Raised" /\ outcome' = v /\ stages' = stages
           ELSE pc' = "MethodValidated" /\ outcome' = outcome
                /\ stages' = Append(stages, "MethodValidated")
    /\ UNCHANGED <<healthVars, concVars, settings, op, args, url, netCalls, request, response, client>>

\* lines 403-407: url = await self._get_url(...)
SendGetUrl ==
    /\ pc = "MethodValidated"
    /\ LET u == get_url(settings, args.service_name, args.route_name, args.request_data)
       IN  IF u.kind = "raise"
           THEN pc' = "Raised" /\ outcome' = u /\ url' = url
           ELSE pc' = "URLBuilt" /\ url' = u /\ outcome' = outcome
    /\ stages' = stages \o get_url_stages(settings, args.service_name, args.route_name,
                                            args.request_data)
    /\ UNCHANGED <<healthVars, concVars, settings, op, args, netCalls, request, response, client>>

\* lines 409-430: a new httpx.AsyncClient is entered and client.request(...)
\* is issued on it
SendRequest ==
    /\ pc = "URLBuilt"
    /\ request' = OutgoingRequest(args, url.value)
    /\ netCalls' = netCalls + 1
    /\ client' = [created |-> client.created + 1, open |-> TRUE]
    /\ pc' = "InFlight"
    /\ stages' = Append(stages, "InFlight")
    /\ UNCHANGED <<healthVars, concVars, settings, op, args, url, response, outcome>>

\* client.request returns a response (line 413)
SendReceive ==
    /\ pc = "InFlight"
    /\ \E c \in StatusCodes, b \in Bodies :
          response' = [kind |-> "response", status_code |-> c, body |-> b]
    /\ pc' = "Received"
    /\ UNCHANGED <<healthVars, concVars, settings, op, args, url, netCalls, request, outcome, client, stages>>

\* a transport fault handled by going back to issue the call again
SendTransportFaultRetries ==
    /\ pc = "InFlight"
    /\ \E e \in TransportExceptions :
          response' = [kind |-> "exception", exc |-> e]
    /\ pc' = "URLBuilt"
    /\ UNCHANGED <<healthVars, concVars, settings, op, args, url, netCalls, request, outcome, client, stages>>

\* client.request raises a transport exception (lines 462-474)
SendTransportFault ==
    /\ pc = "InFlight"
    /\ \E e \in TransportExceptions :
          /\ response' = [kind |-> "exception", exc |-> e]
          /\ outcome' = TransportFault(e)
    /\ pc' = "Raised"
    /\ client' = [client EXCEPT !.open = FALSE]
    /\ UNCHANGED <<healthVars, concVars, settings, op, args, url, netCalls, request, stages>>

\* lines 436-460, 476-480: the response is parsed and normalised; the
\* `async with` block of line 409 is left, which closes its AsyncClient
SendNormalize ==
    /\ pc = "Received"
    /\ outcome' = Normalize(response)
    /\ pc' = IF outcome'.kind = "raise" THEN "Raised" ELSE "Returned"
    /\ client' = [client EXCEPT !.open = FALSE]
    /\ UNCHANGED <<healthVars, concVars, settings, op, args, url, netCalls, request, response, stages>>

\* the call is over; the client is ready for the next one
SendDone ==
    /\ pc \in {"Returned", "Raised"}
    /\ pc' = "Idle"
    /\ args' = None
    /\ url' = None
    /\ netCalls' = 0
    /\ request' = None
    /\ response' = None
    /\ outcome' = None
    /\ stages' = <<>>
    /\ UNCHANGED <<healthVars, concVars, settings, op, client>>

Next ==
    \/ ValidateCall
    \/ GetRouteCall
    \/ CallDone
    \/ SendCall
    \/ SendValidate
    \/ SendGetUrl
    \/ SendRequest
    \/ SendReceive
    \/ SendTransportFault
    \/ SendNormalize
    \/ SendDone

Spec == Init /\ [][Next]_vars

(***************************************************************************)
(* HealthCheck (common/heath.py).  Its methods are coroutines of one       *)
(* event loop: add_service and remove_service have no await and run as one *)
(* step; the tasks of check_services are interleaved at `await             *)
(* service.check()`, and other calls may run between them.                 *)
(***************************************************************************)

\* the service names of the model
ServiceNames == {"users_db", "redis"}

\* ServiceCheck objects: two distinct objects under every name
ServiceChecks == {[service_name |-> n, id |-> i] : n \in ServiceNames, i \in {1, 2}}

\* the add_service / remove_service calls the model follows on one HealthCheck
MaxOps == 4

\* the configuration under which the HealthCheck is followed (it reads none of it)
HealthSettings ==
    [BASE_URL |-> <<"localhost">>, PORT_SERVICE_USERS |-> "8001", PORT_SERVICE_AUTH |-> "8002"]

\* `service_name in self._services`
Registered(reg, service_name) == \E k \in DOMAIN reg : reg[k].service_name = service_name

\* add_service without the test of line 43: the entry of the name is replaced
add_service_replaces(reg, service) ==
    IF Registered(reg, service.service_name)
    THEN [k \in DOMAIN reg |->
             IF reg[k].service_name = service.service_name THEN service ELSE reg[k]]
    ELSE Append(reg, service)

\* add_service(service), lines 41-48: the registry after the call
add_service(reg, service) ==
    IF Registered(reg, service.service_name)
    THEN reg
    ELSE Append(reg, service)

\* remove_service(service_name), lines 50-56: the registry after the call
remove_service(reg, service_name) ==
    LET Other(x) == x.service_name # service_name
    IN  IF Registered(reg, service_name)
        THEN SelectSeq(reg, Other)
        ELSE reg

\* what `await service.check()` can do: return a status that reports the
\* service up, return one that reports it down, or raise an Exception
CheckOutcomes ==
    { [kind |-> "return", success |-> TRUE, message |-> <<"ok">>],
      [kind |-> "return", success |-> FALSE, message |-> <<"unreachable">>],
      [kind |-> "raise", exc |-> "ConnectionError"] }

Pending == [kind |-> "pending"]

\* d[k] = v on a dict
Put(d, k, v) == {p \in d : p[1] # k} \cup {<<k, v>>}

\* _check_service with an except clause that records nothing
check_service_swallows(results, service, o) ==
    IF o.kind = "raise"
    THEN results
    ELSE Put(results, service.service_name,
             [service_name |-> service.service_name, success |-> o.success,
              message |-> o.message, last_check |-> TRUE, response_time_ms |-> TRUE])

\* _check_service(service), lines 61-81, once service.check() has ended
\* with o: `results` after the task
check_service(results, service, o) ==
    IF o.kind = "raise"
    THEN Put(results, service.service_name,
             [service_name |-> service.service_name, success |-> FALSE,
              message |-> <<"Check failed: ", o.exc>>,
              last_check |-> TRUE, response_time_ms |-> FALSE])
    ELSE Put(results, service.service_name,
             [service_name |-> service.service_name, success |-> o.success,
              message |-> o.message, last_check |-> TRUE, response_time_ms |-> TRUE])

\* await health.add_service(service)
AddService ==
    /\ Len(log) < MaxOps
    /\ \E service \in ServiceChecks :
          /\ services' = add_service(services, service)
          /\ log' = Append(log, [op |-> "add", service |-> service, out |-> Return(<<>>)])
    /\ UNCHANGED <<clientVars, concVars, run>>

\* await health.remove_service(service_name)
RemoveService ==
    /\ Len(log) < MaxOps
    /\ \E service_name \in ServiceNames :
          /\ services' = remove_service(services, service_name)
          /\ log' = Append(log, [op |-> "remove", service_name |-> service_name,
                                 out |-> Return(<<>>)])
    /\ UNCHANGED <<clientVars, concVars, run>>

\* check_services is called: lines 58-60 and the list of line 84, one task
\* for every service registered now (`at` notes how many registry calls
\* came before this call)
CheckStart ==
    /\ run = None
    /\ run' = [kind |-> "run", at |-> Len(log), tasks |-> services,
               outcomes |-> [i \in DOMAIN services |-> Pending],
               results |-> {}, returned |-> FALSE]
    /\ UNCHANGED <<clientVars, concVars, services, log>>

\* the check of one of the tasks ends and the task runs to its end (lines 65-81)
CheckTask ==
    /\ run # None /\ ~run.returned
    /\ \E i \in DOMAIN run.tasks, o \in CheckOutcomes :
          /\ run.outcomes[i] = Pending
          /\ run' = [run EXCEPT !.outcomes[i] = o,
                                !.results = check_service(@, run.tasks[i], o)]
    /\ UNCHANGED <<clientVars, concVars, services, log>>

\* every task has ended: gather returns and check_services returns results (lines 83-86)
CheckReturn ==
    /\ run # None /\ ~run.returned
    /\ \A i \in DOMAIN run.tasks : run.outcomes[i] # Pending
    /\ run' = [run EXCEPT !.returned = TRUE]
    /\ UNCHANGED <<clientVars, concVars, services, log>>

\* the caller has taken the results
CheckDone ==
    /\ run # None /\ run.returned
    /\ run' = None
    /\ UNCHANGED <<clientVars, concVars, services, log>>

InitHealth == Init /\ settings = HealthSettings

NextHealth ==
    \/ AddService
    \/ RemoveService
    \/ CheckStart
    \/ CheckTask
    \/ CheckReturn
    \/ CheckDone

SpecHealth == InitHealth /\ [][NextHealth]_vars

(***************************************************************************)
(* Concurrent send_request calls on one SetRequest.  The calls are         *)
(* coroutines of one event loop: validate_http_method and _get_url never   *)
(* suspend, so a call runs from its start to `await client.request(...)`   *)
(* as one step, and from the end of the request to its own end as one      *)
(* step.  All that a call uses is local to it, its AsyncClient (line 409)  *)
(* included; self.timeout is only read.                                    *)
(***************************************************************************)

\* the calls followed concurrently: a POST with a JSON body, a GET without
\* data, and a call with a verb its route does not record
ConcurrentArgs ==
    { [service_name |-> Member("ServiceName", "USERS"),
       route_name |-> Member("UsersRoutes", "CREATE_USER"), route_method |-> "POST",
       request_data |-> Dict({<<"login", "alice">>, <<"password", "p@ss">>}),
       form_data |-> FALSE],
      [service_name |-> Member("ServiceName", "AUTHENTICATION"),
       route_name |-> Member("AuthenticationRoutes", "GET_ACCESS_TOKEN"), route_method |-> "GET",
       request_data |-> NoneParams, form_data |-> FALSE],
      [service_name |-> Member("ServiceName", "USERS"),
       route_name |-> Member("UsersRoutes", "GET_USER_BY_ID"), route_method |-> "POST",
       request_data |-> Dict({<<"id", "42">>}), form_data |-> FALSE] }

\* the responses the concurrent calls receive
ConcurrentResponses ==
    { [kind |-> "response", status_code |-> c, body |-> b] :
        c \in {200, 404},
        b \in {JObj({<<"id", JStr("u1")>>}), JObj({<<"detail", JStr("Not found")>>}), NotJson} }

\* lines 388-413 of a call with arguments a: up to the await of client.request
StartCall(s, a, after) ==
    LET v == validate_http_method(a.route_name, a.route_method)
        u == get_url(s, a.service_name, a.route_name, a.request_data)
        c == [IdleCall EXCEPT !.args = a, !.afterTimeout = after]
    IN  IF v.kind = "raise" THEN [c EXCEPT !.pc = "Raised", !.outcome = v]
        ELSE IF u.kind = "raise" THEN [c EXCEPT !.pc = "Raised", !.outcome = u]
        ELSE [c EXCEPT !.pc = "InFlight", !.url = u,
                       !.request = OutgoingRequest(a, u.value), !.conn = "open"]

\* send_request is called while other calls may be in flight
ConcCall ==
    /\ \E i \in SendIds, a \in ConcurrentArgs :
          /\ calls.sends[i].pc = "Idle"
          /\ calls' = [calls EXCEPT !.sends[i] = StartCall(settings, a, calls.timedOut)]
    /\ UNCHANGED <<clientVars, healthVars>>

\* the request of one call is answered; the call runs to its end (lines 432-460, 476-480)
ConcReceive ==
    /\ \E i \in SendIds, r \in ConcurrentResponses :
          /\ calls.sends[i].pc = "InFlight"
          /\ calls' = [calls EXCEPT
                         !.sends[i] = [@ EXCEPT !.response = r,
                                                !.outcome = Normalize(r),
                                                !.pc = IF Normalize(r).kind = "raise"
                                                       THEN "Raised" ELSE "Returned",
                                                !.conn = "closed"]]
    /\ UNCHANGED <<clientVars, healthVars>>

\* a transport fault that ends every call in flight, as the loss of a
\* connection the calls share would
ConcFaultAbortsAll ==
    /\ \E i \in SendIds, e \in TransportExceptions :
          /\ calls.sends[i].pc = "InFlight"
          /\ calls' = [timedOut |-> calls.timedOut \/ e = "TimeoutException",
                       sends |-> [j \in SendIds |->
                                    IF calls.sends[j].pc = "InFlight"
                                    THEN [calls.sends[j] EXCEPT
                                            !.outcome = TransportFault(e),
                                            !.pc = "Raised", !.conn = "closed"]
                                    ELSE calls.sends[j]]]
    /\ UNCHANGED <<clientVars, healthVars>>

\* the request of one call raises a transport exception (lines 462-474)
ConcFault ==
    /\ \E i \in SendIds, e \in TransportExceptions :
          /\ calls.sends[i].pc = "InFlight"
          /\ calls' = [calls EXCEPT
                         !.timedOut = @ \/ e = "TimeoutException",
                         !.sends[i] = [@ EXCEPT !.response = [kind |-> "exception", exc |-> e],
                                                !.outcome = TransportFault(e),
                                                !.pc = "Raised",
                                                !.conn = "closed"]]
    /\ UNCHANGED <<clientVars, healthVars>>

\* the caller of one call has taken its outcome
ConcDone ==
    /\ \E i \in SendIds :
          /\ calls.sends[i].pc \in {"Returned", "Raised"}
          /\ calls' = [calls EXCEPT !.sends[i] = IdleCall]
    /\ UNCHANGED <<clientVars, healthVars>>

\* the concurrent calls are followed with both ports configured
InitSends ==
    /\ Init
    /\ settings.PORT_SERVICE_USERS = "8001"
    /\ settings.PORT_SERVICE_AUTH = "8002"

NextSends ==
    \/ ConcCall
    \/ ConcReceive
    \/ ConcFault
    \/ ConcDone

SpecSends == InitSends /\ [][NextSends]_vars

(***************************************************************************)
(* Properties of validate_http_method.                                     *)
(***************************************************************************)

Validated == op.kind = "call" /\ op.name = "validate_http_method"

\* C1: validate_http_method(route, verb) succeeds exactly when verb is the
\* verb _HttpRoutesMethods records for the route; for every route exactly
\* one of the five verbs passes, and every other verb raises the
\* "Invalid HTTP method" ValueError naming the supplied and the expected verb.
C1_ValidateIffRecordedVerb ==
    (Validated /\ op.route_name.name \in DOMAIN HttpRoutesMethods) =>
        LET expected == HttpRoutesMethods[op.route_name.name]
        IN  /\ (op.out.kind = "return") <=> (op.route_method = expected)
            /\ op.out.kind = "raise" =>
                  /\ op.out.exc = "ValueError"
                  /\ op.out.msg = "Invalid HTTP method"
                  /\ op.out.args = <<op.route_method, op.route_name.name, expected>>
                  /\ op.route_method # expected
            /\ Cardinality({m \in HttpMethods :
                              validate_http_method(op.route_name, m).kind = "return"}) = 1

C1_Witness ==
    /\ Validated
    /\ op.route_name = Member("UsersRoutes", "CREATE_USER")
    /\ op.route_method = "GET"
    /\ op.out.kind = "raise"
    /\ op.out.args = <<"GET", "CREATE_USER", "POST">>

\* C2: validate_http_method with a route key that names no route raises the
\* ValueError "not found in _HttpRoutesMethods", and no other exception type.
C2_UnknownRouteIsValueError ==
    (Validated /\ op.route_name.name \notin DOMAIN HttpRoutesMethods) =>
        /\ op.out.kind = "raise"
        /\ op.out.exc = "ValueError"
        /\ op.out.msg = "not found in _HttpRoutesMethods"

(***************************************************************************)
(* Properties of send_request.                                             *)
(***************************************************************************)

Sending == pc # "Idle"

Ended == pc \in {"Returned", "Raised"}

\* C3: in send_request the verb is validated before the URL is built and
\* before any network call: a call whose verb is not the recorded verb of
\* its route ends with the "Invalid HTTP method" ValueError of
\* validate_http_method, with no URL built and no network call made.
C3_ValidationBeforeUrlAndNetwork ==
    Sending =>
        LET known == args.route_name.name \in DOMAIN HttpRoutesMethods
            matches == known /\ HttpRoutesMethods[args.route_name.name] = args.route_method
        IN  /\ (url # None \/ netCalls > 0 \/ request # None \/ response # None) => matches
            /\ (known /\ ~matches /\ pc # "Called") =>
                  /\ pc = "Raised"
                  /\ outcome = Raise("ValueError", "Invalid HTTP method",
                                     <<args.route_method, args.route_name.name,
                                       HttpRoutesMethods[args.route_name.name]>>)
                  /\ url = None /\ netCalls = 0 /\ request = None /\ response = None

C3_Witness ==
    /\ pc = "Raised"
    /\ args.route_name = Member("UsersRoutes", "CREATE_USER")
    /\ args.route_method = "GET"
    /\ outcome.msg = "Invalid HTTP method"
    /\ url = None /\ netCalls = 0

Answered == Ended /\ response # None /\ response.kind = "response"

ParsedObject == Answered /\ response.body.t = "object"

ReturnedVariant(v) == pc = "Returned" /\ outcome.kind = "return" /\ outcome.value.variant = v

\* C4: every response whose body parses as JSON and whose status code is
\* 400 or above makes send_request return the Error variant, whatever the
\* fields of the body.
C4_Status400ReturnsError ==
    (ParsedObject /\ response.status_code >= 400) => ReturnedVariant("Error")

NonEmptyDetail ==
    /\ ParsedObject
    /\ "detail" \in Keys(response.body.fields)
    /\ JTruthy(Get(response.body.fields, "detail"))

\* C5: every response whose parsed body has a non-empty "detail" makes
\* send_request return (not raise) the Error variant whose message is that
\* detail and whose status code is the status code of the response.
C5_DetailReturnsError ==
    NonEmptyDetail =>
        /\ ReturnedVariant("Error")
        /\ JStr(outcome.value.error) = Get(response.body.fields, "detail")
        /\ outcome.value.status_code = response.status_code

\* C6: every response with a parsed body, a status code below 400 and no
\* non-empty "detail" (an empty or null "detail" included) makes
\* send_request return the Success variant wrapping the parsed body and the
\* status code of the response; no returned envelope carries another status
\* code than the one received.
C6_NoDetailReturnsSuccess ==
    /\ (ParsedObject /\ response.status_code < 400 /\ ~NonEmptyDetail) =>
          /\ ReturnedVariant("Success")
          /\ outcome.value.detail = response.body
          /\ outcome.value.status_code = response.status_code
    /\ (Answered /\ pc = "Returned") => outcome.value.status_code = response.status_code

\* C7: a transport timeout of the network call makes send_request raise
\* BaseRequestException with status 504, any other transport failure makes
\* it raise BaseRequestException with status 500; neither is returned as an
\* envelope.
C7_TransportFaultStatus ==
    (Ended /\ response # None /\ response.kind = "exception") =>
        /\ pc = "Raised"
        /\ outcome.kind = "raise"
        /\ outcome.exc = "BaseRequestException"
        /\ outcome.status_code = (IF response.exc = "TimeoutException" THEN 504 ELSE 500)

C7_Witness ==
    /\ pc = "Raised"
    /\ response # None /\ response.kind = "exception" /\ response.exc = "TimeoutException"
    /\ outcome.status_code = 504

\* C8: a response whose body is not JSON makes send_request raise
\* BaseRequestException "Failed to parse response JSON" carrying the status
\* code of the response; it is not turned into a 500/504 transport fault and
\* not returned as an envelope.
C8_ParseFaultKeepsStatus ==
    (Answered /\ response.body.t = "invalid") =>
        /\ pc = "Raised"
        /\ outcome.kind = "raise"
        /\ outcome.exc = "BaseRequestException"
        /\ outcome.msg = "Failed to parse response JSON"
        /\ outcome.status_code = response.status_code

C8_Witness ==
    /\ Answered
    /\ response.body.t = "invalid"
    /\ response.status_code = 200
    /\ outcome.status_code = 200

(***************************************************************************)
(* Properties of get_route.                                                *)
(***************************************************************************)

Resolved == op.kind = "call" /\ op.name = "get_route"

\* the service of the call names USERS or AUTHENTICATION, in any case of letters
ServiceOfCall ==
    CASE op.service.name \in {"USERS", "users"}                   -> "USERS"
      [] op.service.name \in {"AUTHENTICATION", "authentication"} -> "AUTHENTICATION"
      [] OTHER                                                    -> "unknown"

\* the members of the route enumeration of a service, by their names
RouteNamesOf(service) ==
    IF service = "USERS" THEN DOMAIN UsersRoutes ELSE DOMAIN AuthenticationRoutes

TemplateOf(service, name) ==
    IF service = "USERS" THEN UsersRoutes[name] ELSE AuthenticationRoutes[name]

\* the route of the call is a route of the service of the call, given as a
\* member or as a plain string key
KnownPair ==
    /\ ServiceOfCall # "unknown"
    /\ op.route_name.name \in RouteNamesOf(ServiceOfCall)
    /\ op.route_name.cls \in {"str", RoutesNamespace[ServiceOfCall]}

PlaceholderNames(t) == {t[i + 1] : i \in {j \in 1..(Len(t) - 1) : t[j] = "{"}}

NotBrace(x) == x \notin {"{", "}"}

\* the template with each placeholder name replaced by its value, braces dropped
Substituted(t, kw) ==
    SelectSeq([i \in 1..Len(t) |-> IF i > 1 /\ t[i - 1] = "{" THEN Get(kw, t[i]) ELSE t[i]],
              NotBrace)

\* C9: for every known (service, route) pair, get_route with params holding
\* every placeholder name of the template returns the template with each
\* placeholder replaced by its value, a path without "{" or "}"; a template
\* without placeholders is returned unchanged whatever the params.
C9_GetRouteSubstitutes ==
    (Resolved /\ KnownPair) =>
        LET t == TemplateOf(ServiceOfCall, op.route_name.name)
        IN  /\ (PlaceholderNames(t) = {}) => op.out = Return(t)
            /\ (PlaceholderNames(t) # {} /\ PlaceholderNames(t) \subseteq Keys(op.params.kw)) =>
                  /\ op.out = Return(Substituted(t, op.params.kw))
                  /\ "{" \notin Range(op.out.value)
                  /\ "}" \notin Range(op.out.value)

C9_Witness ==
    /\ Resolved
    /\ op.service = Member("ServiceName", "USERS")
    /\ op.route_name = Member("UsersRoutes", "GET_USER_BY_ID")
    /\ op.params = Dict({<<"id", "42">>})
    /\ op.out = Return(<<"/", "users", "/", "get", "/", "42">>)

LacksPlaceholder ==
    /\ Resolved /\ KnownPair
    /\ PlaceholderNames(TemplateOf(ServiceOfCall, op.route_name.name)) # {}
    /\ ~(PlaceholderNames(TemplateOf(ServiceOfCall, op.route_name.name)) \subseteq Keys(op.params.kw))

\* the placeholder names of the template of the call that params do not hold
AbsentKeys == PlaceholderNames(TemplateOf(ServiceOfCall, op.route_name.name)) \ Keys(op.params.kw)

\* C11 (as stated): for a route whose template has placeholders, get_route
\* with params absent, empty or lacking a placeholder name raises a fault
\* that names the absent key, and returns no path.
C11_MissingParamNamesKey ==
    LacksPlaceholder =>
        /\ op.out.kind = "raise"
        /\ \E k \in AbsentKeys : op.out.args = <<k>>

\* C11 (amended): for a route whose template has placeholders, get_route
\* with params absent, empty or lacking a placeholder name raises ValueError
\* and returns no path; with params absent or empty the fault is "Missing
\* parameters for route" and names no key, with non-empty params lacking a
\* placeholder name it is the fault of the lookup, naming the absent key.
C11_MissingParamRaises ==
    LacksPlaceholder =>
        /\ op.out.kind = "raise"
        /\ op.out.exc = "ValueError"
        /\ ~Truthy(op.params) => op.out = Raise("ValueError", "Missing parameters for route", <<>>)
        /\ Truthy(op.params) =>
              /\ op.out.msg = "Unknown attribute or incorrect format"
              /\ \E k \in AbsentKeys : op.out.args = <<k>>

C11_Witness ==
    /\ LacksPlaceholder
    /\ op.route_name = Member("UsersRoutes", "DELETE_USER_BY_ID")
    /\ op.params = Dict({<<"id", "42">>})
    /\ op.out = Raise("ValueError", "Unknown attribute or incorrect format", <<"user_id">>)

(***************************************************************************)
(* Properties of _get_url within send_request.                             *)
(***************************************************************************)

\* the verb of the current send_request is the recorded verb of its route
VerbMatches ==
    /\ args.route_name.name \in DOMAIN HttpRoutesMethods
    /\ HttpRoutesMethods[args.route_name.name] = args.route_method

\* the strongly-typed member that a route key of a service names
TypedRoute(service, name) == Member(RoutesNamespace[service], name)

\* C12: for every service and every route of it, the route given as its raw
\* string key gives what the route given as the typed member gives:
\* get_route has the same result for both, and in a send _get_url builds the
\* same URL for both.
C12_RawKeySameAsTyped ==
    /\ (Resolved /\ KnownPair /\ op.route_name.cls = "str") =>
          op.out = get_route(op.service, TypedRoute(ServiceOfCall, op.route_name.name), op.params)
    /\ (/\ Sending /\ VerbMatches /\ pc \notin {"Called", "MethodValidated"}
        /\ args.route_name.cls = "str"
        /\ args.route_name.name \in RouteNamesOf(args.service_name.name)) =>
          LET typed == get_url(settings, args.service_name,
                               TypedRoute(args.service_name.name, args.route_name.name),
                               args.request_data)
          IN  IF typed.kind = "return" THEN url = typed ELSE outcome = typed

\* the current send_request is past its call of _get_url
PastGetUrl == Sending /\ pc \notin {"Called", "MethodValidated"}

\* the configured port of the service of the current send_request
PortSetting ==
    IF args.service_name.name = "USERS" THEN settings.PORT_SERVICE_USERS
    ELSE settings.PORT_SERVICE_AUTH

\* the route of the current send_request resolves to a path: a typed member
\* of the enumeration of the service whose placeholders, if params are
\* given, are all held by the params
RouteResolves ==
    /\ args.route_name.cls = RoutesNamespace[args.service_name.name]
    /\ ResolveForUrl(args.service_name.name, args.route_name, args.request_data).kind = "return"

\* C13: for a known service whose configured port is missing (None) or
\* empty, _get_url raises BaseRequestException with status 503 and returns
\* no URL: no network call is made, and the missing port is not rendered
\* into a URL.
C13_MissingPortIs503 ==
    (PastGetUrl /\ VerbMatches /\ RouteResolves /\ PortSetting \in {NoneSetting, ""}) =>
        /\ pc = "Raised"
        /\ outcome = BaseRequestException("Service port not found for service",
                                          HTTP_503_SERVICE_UNAVAILABLE)
        /\ url = None
        /\ netCalls = 0

\* the path get_route resolves for the current send_request
PathOfSend == get_route(args.service_name, args.route_name, args.request_data)

\* C14: for every known service with a configured port and every route of
\* it that resolves to a path, with or without params, the URL _get_url
\* builds is base ":" port path: base is the configured base URL with
\* "http://" in front when it has no scheme and without its trailing slash,
\* port is the port of the service, and path is the resolved route, which
\* begins with "/".
C14_UrlIsBasePortPath ==
    (/\ PastGetUrl /\ VerbMatches
     /\ args.route_name.cls = RoutesNamespace[args.service_name.name]
     /\ PortSetting \notin {NoneSetting, ""}
     /\ PathOfSend.kind = "return") =>
        /\ Head(PathOfSend.value) = "/"
        /\ url = Return(BaseUrl(settings) \o <<":", PortSetting>> \o PathOfSend.value)

\* the template of the route of the current send_request, a typed member
TemplateOfSend == RouteClasses[args.route_name.cls][args.route_name.name]

\* C15: a send to a service with a configured port, on a route of it whose
\* template has placeholders, given no values for them, ends with the missing-parameter ValueError of get_route before
\* any network call; no network call goes to a URL that still holds a
\* "{...}" placeholder.
C15_NoSendWithPlaceholder ==
    /\ (request # None) => ("{" \notin Range(request.url) /\ "}" \notin Range(request.url))
    /\ (/\ PastGetUrl /\ VerbMatches
        /\ args.route_name.cls = RoutesNamespace[args.service_name.name]
        /\ PortSetting \notin {NoneSetting, ""}
        /\ ~(PlaceholderNames(TemplateOfSend) \subseteq Keys(args.request_data.kw))) =>
          /\ pc = "Raised"
          /\ outcome.exc = "ValueError"
          /\ netCalls = 0 /\ request = None

(***************************************************************************)
(* Properties of the network call of send_request.                         *)
(***************************************************************************)

\* client.request of the current send_request has been issued
Requested == request # None

\* C16: in every network call of send_request: a call without request_data
\* passes neither json nor data; a call with verb POST, PUT or PATCH and
\* request_data passes exactly one of them, the dumped data as json when
\* form_data is false and as data when form_data is true; a call with verb
\* GET or DELETE passes neither.
C16_ExactlyOneBody ==
    Requested =>
        /\ request.method = args.route_method
        /\ args.request_data.isNone =>
              (request.json = NoneParams /\ request.data = NoneParams)
        /\ (args.route_method \in {"POST", "PUT", "PATCH"} /\ ~args.request_data.isNone) =>
              /\ (request.json = NoneParams) # (request.data = NoneParams)
              /\ ~args.form_data => request.json = args.request_data
              /\ args.form_data => request.data = args.request_data
        /\ args.route_method \in {"GET", "DELETE"} =>
              (request.json = NoneParams /\ request.data = NoneParams)

C16_Witness ==
    /\ Requested
    /\ args.route_method = "POST"
    /\ args.form_data
    /\ request.data = Dict({<<"login", "alice">>, <<"password", "p@ss">>})
    /\ request.json = NoneParams

\* C17: a send with verb GET that is given parameters passes them to the
\* network call as its query parameters.
C17_GetAttachesQuery ==
    (Requested /\ args.route_method = "GET" /\ Truthy(args.request_data)) =>
        request.params = args.request_data

\* C18: the URL of a send depends on the service and the route only, not on
\* the request body: a send with any other body (absent, empty, or with
\* other fields) for which a URL is built gets the same URL, and no field
\* value of the body appears in the URL.
C18_UrlIndependentOfBody ==
    (/\ PastGetUrl /\ VerbMatches /\ url # None
     /\ args.route_name.cls = RoutesNamespace[args.service_name.name]) =>
        /\ \A d \in RequestDatas :
              LET other == get_url(settings, args.service_name, args.route_name, d)
              IN  other.kind = "return" => other = url
        /\ \A f \in args.request_data.kw : f[2] \notin Range(url.value)

\* method validation and URL construction of the current send_request succeed
ValidationAndUrlSucceed ==
    /\ validate_http_method(args.route_name, args.route_method).kind = "return"
    /\ get_url(settings, args.service_name, args.route_name, args.request_data).kind = "return"

\* C19: every send_request makes at most one network call: none when method
\* validation or URL construction fails, exactly one when both succeed,
\* whatever the outcome of the call (timeout, transport failure, parse
\* failure, error response); the count never grows past one.
C19_AtMostOneCall ==
    Sending =>
        /\ netCalls \in {0, 1}
        /\ pc \in {"InFlight", "Received"} => netCalls = 1
        /\ Ended => (netCalls = 1 <=> ValidationAndUrlSucceed)
        /\ (response # None) => netCalls = 1

C19_Witness ==
    /\ ReturnedVariant("Error")
    /\ response.status_code = 500
    /\ netCalls = 1

(***************************************************************************)
(* Properties of the connection object.                                    *)
(***************************************************************************)

\* C20: one SetRequest owns a single connection object shared by its sends:
\* the first send creates it, no send closes it, and every later send
\* reuses it, so that at most one connection object is ever created and,
\* once created, it stays open.
C20_SingleSharedConnection ==
    /\ client.created <= 1
    /\ client.created >= 1 => client.open

(***************************************************************************)
(* Properties of the faults of send_request and get_route.                 *)
(***************************************************************************)

\* C23: for every response whose body parses as JSON (an object, a list, a
\* number, a string or null, with a "detail" of any JSON type), send_request
\* ends either by returning a Success or Error envelope or by raising
\* BaseRequestException; no other exception leaves the normalisation.
C23_OnlyTypedFaultsEscape ==
    (Answered /\ response.body.t # "invalid") =>
        \/ ReturnedVariant("Success")
        \/ ReturnedVariant("Error")
        \/ (pc = "Raised" /\ outcome.exc = "BaseRequestException")

\* C24: get_route resolves a route within the route set of the service it
\* is given only: a typed member of the enumeration of another service is
\* rejected with the ValueError of an unknown route, and the template of the
\* other service is not returned.
C24_ForeignMemberRejected ==
    (/\ Resolved /\ ServiceOfCall # "unknown"
     /\ IsRouteMember(op.route_name)
     /\ op.route_name.cls # RoutesNamespace[ServiceOfCall]) =>
        /\ op.out.kind = "raise"
        /\ op.out.exc = "ValueError"

(***************************************************************************)
(* Properties of the stages of send_request.                               *)
(***************************************************************************)

StageOrder ==
    <<"Idle", "MethodValidated", "PathResolved", "PortResolved", "URLBuilt", "InFlight">>

IsPrefix(a, b) == Len(a) <= Len(b) /\ a = SubSeq(b, 1, Len(a))

\* the terminal outcomes the ended send_request is in
TerminalOutcomes ==
    {o \in {"ParsedSuccess", "ParsedError", "TransportFailed", "ParseFailed"} :
        CASE o = "ParsedSuccess"   -> ReturnedVariant("Success")
          [] o = "ParsedError"     -> ReturnedVariant("Error")
          [] o = "TransportFailed" -> /\ pc = "Raised"
                                      /\ response.kind = "exception"
                                      /\ outcome.exc = "BaseRequestException"
          [] o = "ParseFailed"     -> /\ pc = "Raised"
                                      /\ response.kind = "response"
                                      /\ outcome.exc = "BaseRequestException"
                                      /\ outcome.msg = "Failed to parse response JSON"}

\* the stage order alone: the stages passed are an initial part of the fixed order
StagesInOrder == Sending => IsPrefix(stages, StageOrder)

\* C22: every send_request passes its stages in the fixed order Idle,
\* MethodValidated, PathResolved, PortResolved, URLBuilt, InFlight, none
\* skipped and none passed twice, and a call that has reached InFlight ends
\* in exactly one of the outcomes ParsedSuccess, ParsedError,
\* TransportFailed, ParseFailed.
C22_StagesThenOneOutcome ==
    Sending =>
        /\ IsPrefix(stages, StageOrder)
        /\ (Ended /\ "InFlight" \in Range(stages)) => Cardinality(TerminalOutcomes) = 1

(***************************************************************************)
(* Properties of HealthCheck.                                              *)
(***************************************************************************)

\* the last remove_service call of a name among the first m calls of the log (0: none)
LastRemoveAt(n, m) ==
    LET rs == {j \in 1..m : log[j].op = "remove" /\ log[j].service_name = n}
    IN  IF rs = {} THEN 0 ELSE CHOOSE j \in rs : \A k \in rs : k <= j

\* the add_service calls of a name since its last removal, among the first m calls
AddsSinceAt(n, m) ==
    {j \in 1..m : /\ j > LastRemoveAt(n, m)
                  /\ log[j].op = "add"
                  /\ log[j].service.service_name = n}

AddsSince(n) == AddsSinceAt(n, Len(log))

FirstOf(js) == CHOOSE j \in js : \A k \in js : j <= k

\* C25: after any sequence of add_service and remove_service calls the
\* registry holds, for each name, the first service added under the name
\* since the name was last removed, and nothing for a name not added since;
\* so an add_service of a registered name and a remove_service of an
\* unregistered name change nothing, and no call fails.
C25_RegistryKeepsFirst ==
    /\ \A n \in ServiceNames :
          IF AddsSince(n) = {}
          THEN ~Registered(services, n)
          ELSE /\ \E k \in DOMAIN services : services[k] = log[FirstOf(AddsSince(n))].service
               /\ Cardinality({k \in DOMAIN services : services[k].service_name = n}) = 1
    /\ \A j \in DOMAIN log : log[j].out.kind = "return"

C25_Witness ==
    /\ Len(log) = 4
    /\ log[1].op = "add" /\ log[1].service = [service_name |-> "redis", id |-> 1]
    /\ log[2].op = "add" /\ log[2].service = [service_name |-> "redis", id |-> 2]
    /\ log[3].op = "remove" /\ log[3].service_name = "users_db"
    /\ log[4].op = "add" /\ log[4].service = [service_name |-> "users_db", id |-> 2]
    /\ services = <<[service_name |-> "redis", id |-> 1], [service_name |-> "users_db", id |-> 2]>>

\* the entry check_services reports for a service whose check ended with o
ReportedFor(service, o) ==
    [service_name |-> service.service_name,
     success      |-> IF o.kind = "raise" THEN FALSE ELSE o.success]

\* the service name and the success flag of the entries of results
Reported(results) ==
    {<<p[1], [service_name |-> p[2].service_name, success |-> p[2].success]>> : p \in results}

\* C26: check_services runs one check for every service registered when it
\* is called, whatever is added or removed while it runs; in whatever order the checks end, results holds exactly one
\* entry for every check that has ended, under the name of its service and
\* with its own status, a check that raised being reported with
\* success=False; check_services returns when all have ended, with one
\* entry per service registered at the call, and never raises.
C26_OneStatusPerService ==
    (run # None) =>
        LET ended == {i \in DOMAIN run.tasks : run.outcomes[i] # Pending}
        IN  /\ Range(run.tasks) =
                  {log[FirstOf(AddsSinceAt(n, run.at))].service :
                      n \in {x \in ServiceNames : AddsSinceAt(x, run.at) # {}}}
            /\ Reported(run.results) =
                  {<<run.tasks[i].service_name, ReportedFor(run.tasks[i], run.outcomes[i])>> :
                      i \in ended}
            /\ Cardinality(run.results) = Cardinality(ended)
            /\ run.returned => ended = DOMAIN run.tasks

C26_Witness ==
    /\ run # None /\ run.returned
    /\ Len(run.tasks) = 2
    /\ run.outcomes[1].kind = "raise"
    /\ run.outcomes[2] = [kind |-> "return", success |-> TRUE, message |-> <<"ok">>]
    /\ services # run.tasks
    /\ Cardinality(run.results) = 2

(***************************************************************************)
(* Properties of concurrent send_request calls.                            *)
(***************************************************************************)

\* the call in slot i ended with the timeout fault
TimedOut(i) ==
    /\ calls.sends[i].pc = "Raised"
    /\ calls.sends[i].outcome.exc = "BaseRequestException"
    /\ calls.sends[i].outcome.msg = "Request timed out"
    /\ calls.sends[i].outcome.status_code = 504

\* C21: a timeout is local to the call that exceeded it: a call whose
\* request timed out, and no other call, ends with the 504 timeout fault;
\* every call whose request was answered ends with the outcome of its own
\* response, whether it ran beside a call that timed out or was issued after
\* one; a call in flight keeps its connection open when another times out.
C21_TimeoutIsLocal ==
    \A i \in SendIds :
        LET c == calls.sends[i]
        IN  /\ (c.response.kind = "exception" /\ c.response.exc = "TimeoutException") =>
                  TimedOut(i)
            /\ (c.pc = "Raised" /\ c.outcome.exc = "BaseRequestException"
                /\ c.outcome.status_code = 504) =>
                  (c.response.kind = "exception" /\ c.response.exc = "TimeoutException")
            /\ c.response.kind = "response" =>
                  /\ c.outcome = Normalize(c.response)
                  /\ c.pc \in {"Returned", "Raised"}
            /\ c.pc = "InFlight" =>
                  (c.conn = "open" /\ c.response = None /\ c.outcome = None)

C21_Witness ==
    /\ TimedOut(1)
    /\ calls.sends[2].pc = "InFlight"
    /\ ~calls.sends[2].afterTimeout
    /\ calls.sends[2].conn = "open"

====
